---------------------------- MODULE Spec2Model ----------------------------
(***************************************************************************)
(* A state-machine model of the Navigator component of src/Navigator.js:   *)
(* the route table built by buildSceneConfig, the stack kept in            *)
(* this.state.stack, the shared Animated.Value this._animatedValue, and    *)
(* the PanResponder handlers that drive the swipe-back gesture.            *)
(*                                                                         *)
(* Host primitives that the component calls are modelled by their          *)
(* documented contract:                                                    *)
(*  - Animated.Value holds one number and at most one running animation.   *)
(*    setValue(v) and the start of a new animation both stop the running   *)
(*    animation; a stopped animation's start() callback is invoked at once *)
(*    with {finished: false}, a completed animation's callback is invoked  *)
(*    with {finished: true} after the value reached toValue. A callback is *)
(*    invoked at most once.                                                *)
(*  - setState(updater, callback) issued inside one event is applied,      *)
(*    rendered and its callback run before the next event is delivered, so *)
(*    one handler together with the updates and callbacks it triggers is   *)
(*    one step.                                                            *)
(*  - PanResponder asks onMoveShouldSetPanResponder on every move of a     *)
(*    touch it does not own yet; the move that grants the responder is not *)
(*    also delivered to onPanResponderMove.                                *)
(*                                                                         *)
(* Lengths are integers counted in sub-pixel units: one pixel is Scale     *)
(* units, so that fractional touch coordinates and Math.floor are          *)
(* represented exactly.                                                    *)
(***************************************************************************)
EXTENDS Integers, Sequences, FiniteSets, TLC

VARIABLES
    props,        \* the props the Navigator was constructed with
    width,        \* Dimensions.get('window').width, in sub-pixel units
    phase,        \* "threw" | "mounted" | "crashed"
    sceneConfig,  \* this.state.sceneConfig
    stack,        \* this.state.stack
    value,        \* this._animatedValue, in sub-pixel units
    anim,         \* the animation running on this._animatedValue, if any
    touch,        \* "none" | "down" | "responder"
    startX,       \* pageX at which the touch that is down started
    moveX,        \* gestureState.moveX of the owned gesture
    last,         \* the handler that ran last: [op, arg]
    reference,    \* the reference stack of the pushes and pops issued so far,
                  \* kept while each was issued with no animation running
    normalized,   \* the gesture-free Navigator of src/unnamed/part_003 fed
                  \* with the same pushes and pops: its stack, its animated
                  \* value (in units of 1 / width) and its animation
    owed          \* a lower bound of the pop requests issued so far minus
                  \* the elements removed so far: a request raises it by 1,
                  \* up to 1, and a removal lowers it by 1

vars == <<props, width, phase, sceneConfig, stack, value, anim, touch,
          startX, moveX, last, reference, normalized, owed>>

(***************************************************************************)
(* Bounds of the model.                                                    *)
(***************************************************************************)
MaxStack == 3
MaxWidth == 5
Scale == 2

Widths == {w * Scale : w \in (MaxWidth - 1)..MaxWidth}
Positions == 0..width

(***************************************************************************)
(* Routes and props.                                                       *)
(***************************************************************************)
NoName == ""
Undefined == [key |-> "undefined", component |-> "undefined"]

Child(name, component) == [name |-> name, component |-> component]

AppChildren ==
    << Child("Screen1", "Screen1"), Child("Screen2", "Screen2"),
       Child("Screen3", "Screen3") >>

DuplicateChildren ==
    << Child("Screen1", "Screen1"), Child("Screen2", "Screen2"),
       Child("Screen1", "Screen3") >>

PropsSet ==
    { [children |-> AppChildren, initialSceneName |-> NoName],
      [children |-> AppChildren, initialSceneName |-> "Screen2"],
      [children |-> AppChildren, initialSceneName |-> "Nope"],
      [children |-> DuplicateChildren, initialSceneName |-> NoName],
      [children |-> << >>, initialSceneName |-> NoName],
      [children |-> << >>, initialSceneName |-> "Screen1"] }

PushNames == {"Screen1", "Screen2", "Nope"}

\* a faulty variant of forEachChild: the first declaration of a name is kept
RECURSIVE forEachChildFirstWins(_, _)
forEachChildFirstWins(children, config) ==
    IF children = << >> THEN config
    ELSE LET child == Head(children)
             entry == [key |-> child.name, component |-> child.component]
         IN  forEachChildFirstWins(Tail(children),
                 [n \in (DOMAIN config) \cup {child.name} |->
                     IF n \in DOMAIN config THEN config[n] ELSE entry])

\* a faulty variant of forEachChild: the descriptor is keyed by its component
RECURSIVE forEachChildKeyedByComponent(_, _)
forEachChildKeyedByComponent(children, config) ==
    IF children = << >> THEN config
    ELSE LET child == Head(children)
             entry == [key |-> child.component, component |-> child.component]
         IN  forEachChildKeyedByComponent(Tail(children),
                 [n \in (DOMAIN config) \cup {child.name} |->
                     IF n = child.name THEN entry ELSE config[n]])

RECURSIVE forEachChild(_, _)
forEachChild(children, config) ==
    IF children = << >> THEN config
    ELSE LET child == Head(children)
             entry == [key |-> child.name, component |-> child.component]
         IN  forEachChild(Tail(children),
                 [n \in (DOMAIN config) \cup {child.name} |->
                     IF n = child.name THEN entry ELSE config[n]])

buildSceneConfig(children) == forEachChild(children, << >>)

Lookup(config, name) ==
    IF name \in DOMAIN config THEN config[name] ELSE Undefined

\* props.initialSceneName || props.children[0].props.name
ConstructorThrows(p) ==
    p.initialSceneName = NoName /\ p.children = << >>

InitialSceneName(p) ==
    IF p.initialSceneName # NoName THEN p.initialSceneName
    ELSE p.children[1].name

\* render() reads scene.component of every stack entry
RenderThrows(s) == \E i \in 1..Len(s) : s[i] = Undefined

\* a faulty variant of render: the last scene is displaced at index 0 as well
renderDisplacesBase(s, v) ==
    [i \in 1..Len(s) |->
        LET index == i - 1
        IN  [key |-> s[i].key,
             translateX |-> IF index = Len(s) - 1 THEN v ELSE 0]]

\* render(): the scenes in stack order, each with the translateX of its style
\* (0 where no transform is pushed)
render(s, v) ==
    [i \in 1..Len(s) |->
        LET index == i - 1
        IN  [key |-> s[i].key,
             translateX |-> IF index = Len(s) - 1 /\ index > 0 THEN v ELSE 0]]

(***************************************************************************)
(* The animated value.                                                     *)
(***************************************************************************)
NoAnim == [active |-> FALSE, to |-> 0, cb |-> "none", at |-> << >>]

\* Animated.timing(this._animatedValue, {toValue: to}).start(cb); "at" keeps
\* the stack at the time of the call
Timing(to, cb, at) == [active |-> TRUE, to |-> to, cb |-> cb, at |-> at]

Machine == [stack |-> stack, value |-> value, anim |-> anim, owed |-> owed]

\* a faulty variant of PopUpdater: the updater without its test of the length
PopUpdaterUnguarded(s) == SubSeq(s, 1, Len(s) - 1)

\* a faulty variant of PopUpdater: everything above the base is removed
PopUpdaterToRoot(s) == << s[1] >>

\* a faulty variant of PopUpdater: the first element is removed
PopUpdaterRemovesFirst(s) ==
    IF Len(s) > 1 THEN Tail(s) ELSE s

PopUpdater(s) ==
    IF Len(s) > 1 THEN SubSeq(s, 1, Len(s) - 1) ELSE s

\* a faulty variant of PopCallback: the offset is reset, nothing is removed
PopCallbackKeepsTop(m) == [m EXCEPT !.value = 0]

\* the callback handlePop passes to start()
PopCallback(m) ==
    [m EXCEPT !.value = 0, !.stack = PopUpdater(m.stack),
              !.owed = @ - (Len(m.stack) - Len(PopUpdater(m.stack)))]

\* 1 as a value of the normalized animated value, which counts in 1 / width
One == width

\* the callback handlePop of the gesture-free Navigator passes to start()
NormalizedPopCallback(m) ==
    [m EXCEPT !.value = One, !.stack = PopUpdater(m.stack)]

RunCallback(m, cb) ==
    IF cb = "pop" THEN PopCallback(m)
    ELSE IF cb = "normalizedPop" THEN NormalizedPopCallback(m)
    ELSE m

StopAnimation(m) ==
    IF m.anim.active
    THEN RunCallback([m EXCEPT !.anim = NoAnim], m.anim.cb)
    ELSE m

SetValue(m, v) == [StopAnimation(m) EXCEPT !.value = v]

StartTiming(m, a) == [StopAnimation(m) EXCEPT !.anim = a]

Commit(m) ==
    /\ stack' = m.stack
    /\ value' = m.value
    /\ anim' = m.anim
    /\ owed' = m.owed

(***************************************************************************)
(* The reference stack: push appends the descriptor, pop removes the last  *)
(* element unless it is the only one.                                      *)
(***************************************************************************)
NotSerial == [serial |-> FALSE, stack |-> << >>]

Serial(ok, s) == IF ok THEN [serial |-> TRUE, stack |-> s] ELSE NotSerial

ReferencePush(s, descriptor) == Append(s, descriptor)

ReferencePop(s) == IF Len(s) = 1 THEN s ELSE SubSeq(s, 1, Len(s) - 1)

Init ==
    /\ props \in PropsSet
    /\ width \in Widths
    /\ sceneConfig = buildSceneConfig(props.children)
    /\ IF ConstructorThrows(props)
       THEN stack = << >> /\ phase = "threw"
       ELSE /\ stack = << Lookup(sceneConfig, InitialSceneName(props)) >>
            /\ phase = IF RenderThrows(stack) THEN "crashed" ELSE "mounted"
    /\ value = 0
    /\ anim = NoAnim
    /\ touch = "none"
    /\ startX = 0
    /\ moveX = 0
    /\ last = [op |-> "constructor", arg |-> props.initialSceneName]
    /\ reference = Serial(phase = "mounted", stack)
    /\ owed = 0
    /\ normalized = [stack |-> stack, value |-> 0, anim |-> NoAnim]

Ran(op, arg) == last' = [op |-> op, arg |-> arg]

\* the reference follows an operation issued while nothing is running and is
\* given up otherwise
Follow(ok, s) == reference' = Serial(reference.serial /\ ok, s)

(***************************************************************************)
(* navigator.push and navigator.pop                                        *)
(***************************************************************************)
\* a faulty variant of handlePush: the animation is started before the
\* descriptor is appended
handlePushAnimatesFirst(sceneName) ==
    /\ phase = "mounted"
    /\ Len(stack) < MaxStack
    /\ LET shown == StartTiming(SetValue(Machine, width),
                                Timing(0, "none", << >>))
           pushed == [shown EXCEPT
                         !.stack = Append(shown.stack,
                                          Lookup(sceneConfig, sceneName))]
       IN  IF RenderThrows(pushed.stack)
           THEN /\ stack' = pushed.stack
                /\ phase' = "crashed"
                /\ UNCHANGED <<value, anim, owed>>
           ELSE /\ Commit(pushed)
                /\ UNCHANGED phase
    /\ Ran("push", sceneName)
    /\ Follow(~anim.active /\ sceneName \in DOMAIN sceneConfig,
              ReferencePush(reference.stack, Lookup(sceneConfig, sceneName)))
    /\ UNCHANGED <<props, width, sceneConfig, touch, startX, moveX>>

\* a faulty variant of handlePush: the updater returns a state without the
\* route table
handlePushDropsSceneConfig(sceneName) ==
    /\ phase = "mounted"
    /\ Len(stack) < MaxStack
    /\ LET pushed == [Machine EXCEPT
                         !.stack = Append(stack, Lookup(sceneConfig, sceneName))]
           shown == StartTiming(SetValue(pushed, width),
                                Timing(0, "none", << >>))
       IN  IF RenderThrows(pushed.stack)
           THEN /\ stack' = pushed.stack
                /\ phase' = "crashed"
                /\ UNCHANGED <<value, anim, owed>>
           ELSE /\ Commit(shown)
                /\ UNCHANGED phase
    /\ sceneConfig' = buildSceneConfig(<< >>)
    /\ Ran("push", sceneName)
    /\ Follow(~anim.active /\ sceneName \in DOMAIN sceneConfig,
              ReferencePush(reference.stack, Lookup(sceneConfig, sceneName)))
    /\ UNCHANGED <<props, width, touch, startX, moveX>>

handlePush(sceneName) ==
    /\ phase = "mounted"
    /\ Len(stack) < MaxStack
    /\ LET pushed == [Machine EXCEPT
                         !.stack = Append(stack, Lookup(sceneConfig, sceneName))]
           shown == StartTiming(SetValue(pushed, width),
                                Timing(0, "none", << >>))
       IN  IF RenderThrows(pushed.stack)
           THEN /\ stack' = pushed.stack
                /\ phase' = "crashed"
                /\ UNCHANGED <<value, anim, owed>>
           ELSE /\ Commit(shown)
                /\ UNCHANGED phase
    /\ Ran("push", sceneName)
    /\ Follow(~anim.active /\ sceneName \in DOMAIN sceneConfig,
              ReferencePush(reference.stack, Lookup(sceneConfig, sceneName)))
    /\ UNCHANGED <<props, width, sceneConfig, touch, startX, moveX>>

PopTiming == Timing(width, "pop", stack)

\* a faulty variant of PopRequested: the animation is started twice, and the
\* callback of the first start runs when the second start stops it
PopRequestedTwice(m) ==
    [StartTiming(StartTiming(m, PopTiming), PopTiming)
        EXCEPT !.owed = IF @ < 1 THEN @ + 1 ELSE @]

\* the body of handlePop, a pop request; it is counted once its animation
\* is started
PopRequested(m) ==
    [StartTiming(m, PopTiming) EXCEPT !.owed = IF @ < 1 THEN @ + 1 ELSE @]

handlePop ==
    /\ phase = "mounted"
    /\ Commit(PopRequested(Machine))
    /\ Ran("pop", NoName)
    /\ Follow(~anim.active, ReferencePop(reference.stack))
    /\ UNCHANGED <<props, width, phase, sceneConfig, touch, startX, moveX>>

(***************************************************************************)
(* The host's animation driver.                                            *)
(***************************************************************************)
\* one frame of a running animation moves the value one unit towards toValue;
\* the frame that reaches toValue is the one that ends the animation
\* a faulty variant of Toward: the value always grows
TowardOvershoots(v, to) == v + 1

Toward(v, to) == IF v < to THEN v + 1 ELSE v - 1

AnimationFrame ==
    /\ phase = "mounted"
    /\ anim.active
    /\ value # anim.to
    /\ Toward(value, anim.to) # anim.to
    /\ value' = Toward(value, anim.to)
    /\ Ran("frame", NoName)
    /\ UNCHANGED reference
    /\ UNCHANGED <<props, width, phase, sceneConfig, stack, anim, touch,
                   startX, moveX, owed>>

AnimationEnd ==
    /\ phase = "mounted"
    /\ anim.active
    /\ Commit(RunCallback([Machine EXCEPT !.value = anim.to, !.anim = NoAnim],
                          anim.cb))
    /\ Ran("end", anim.cb)
    /\ UNCHANGED reference
    /\ UNCHANGED <<props, width, phase, sceneConfig, touch, startX, moveX>>

(***************************************************************************)
(* The pan responder.                                                      *)
(***************************************************************************)
\* Math.floor of the rational num / den (sub-pixel units), in sub-pixel units
MathFloor(num, den) == (num \div (den * Scale)) * Scale

isFarLeft(pageX) == pageX < MathFloor(width, 4)

\* a faulty variant of the admission test: the first screen is not excluded
AdmitsOnFirstScreen(pageX) == isFarLeft(pageX)

onMoveShouldSetPanResponder(pageX) ==
    LET isFirstScreen == Len(stack) = 1
    IN  ~isFirstScreen /\ isFarLeft(pageX)

Zone(pageX) == IF isFarLeft(pageX) THEN "farLeft" ELSE "elsewhere"

ReleaseCommits(x) == 2 * MathFloor(x, 1) >= width

\* a faulty variant of SnapBack: the animation stops one unit short of rest
SnapBackShort == Timing(1, "none", << >>)

SnapBack == Timing(0, "none", << >>)

TouchStart(pageX) ==
    /\ phase = "mounted"
    /\ touch = "none"
    /\ touch' = "down"
    /\ startX' = pageX
    /\ moveX' = 0
    /\ Ran("touchStart", NoName)
    /\ UNCHANGED reference
    /\ UNCHANGED <<props, width, phase, sceneConfig, stack, value, anim,
                   owed>>

TouchMove(pageX) ==
    /\ phase = "mounted"
    /\ touch = "down"
    /\ IF onMoveShouldSetPanResponder(pageX)
       THEN /\ touch' = "responder"
            /\ moveX' = pageX
            /\ startX' = 0
            /\ Ran("grant", Zone(pageX))
       ELSE /\ UNCHANGED <<touch, startX, moveX>>
            /\ Ran("deny", Zone(pageX))
    /\ UNCHANGED <<props, width, phase, sceneConfig, stack, value, anim,
                   reference, owed>>

TouchEnd ==
    /\ phase = "mounted"
    /\ touch = "down"
    /\ touch' = "none"
    /\ startX' = 0
    /\ moveX' = 0
    /\ Ran("touchEnd", NoName)
    /\ UNCHANGED reference
    /\ UNCHANGED <<props, width, phase, sceneConfig, stack, value, anim,
                   owed>>

onPanResponderMove(x) ==
    /\ phase = "mounted"
    /\ touch = "responder"
    /\ moveX' = x
    /\ Commit(SetValue(Machine, x))
    /\ Ran("move", NoName)
    /\ Follow(FALSE, << >>)
    /\ UNCHANGED <<props, width, phase, sceneConfig, touch, startX>>

onPanResponderRelease ==
    /\ phase = "mounted"
    /\ touch = "responder"
    /\ IF ReleaseCommits(moveX)
       THEN Commit(PopRequested(Machine))
       ELSE Commit(StartTiming(Machine, SnapBack))
    /\ touch' = "none"
    /\ Ran("release", NoName)
    /\ Follow(FALSE, << >>)
    /\ UNCHANGED <<props, width, phase, sceneConfig, startX, moveX>>

\* a faulty variant of the termination request: refused once the drag has
\* moved the offset
RefusesOnceDragged == value = 0

onPanResponderTerminationRequest == TRUE

onPanResponderTerminate ==
    /\ phase = "mounted"
    /\ touch = "responder"
    /\ onPanResponderTerminationRequest
    /\ Commit(StartTiming(Machine, SnapBack))
    /\ touch' = "none"
    /\ Ran("terminate", NoName)
    /\ Follow(FALSE, << >>)
    /\ UNCHANGED <<props, width, phase, sceneConfig, startX, moveX>>

Next ==
    \/ \E sceneName \in PushNames :
           handlePush(sceneName) /\ UNCHANGED normalized
    \/ handlePop /\ UNCHANGED normalized
    \/ AnimationFrame /\ UNCHANGED normalized
    \/ AnimationEnd /\ UNCHANGED normalized
    \/ \E pageX \in Positions : TouchStart(pageX) /\ UNCHANGED normalized
    \/ \E pageX \in Positions : TouchMove(pageX) /\ UNCHANGED normalized
    \/ TouchEnd /\ UNCHANGED normalized
    \/ \E x \in Positions : onPanResponderMove(x) /\ UNCHANGED normalized
    \/ onPanResponderRelease /\ UNCHANGED normalized
    \/ onPanResponderTerminate /\ UNCHANGED normalized

Spec == Init /\ [][Next]_vars

(***************************************************************************)
(* The gesture-free Navigator of src/unnamed/part_003, which drives a      *)
(* normalized value (0 = off screen, 1 = fully visible), next to the       *)
(* Navigator above: both get the same pushes and pops, and the animation   *)
(* driver runs the animations of both at the same pace.                    *)
(***************************************************************************)
NormalizedPush(m, sceneName) ==
    LET pushed == [m EXCEPT
                      !.stack = Append(m.stack, Lookup(sceneConfig, sceneName))]
    IN  IF RenderThrows(pushed.stack)
        THEN pushed
        ELSE StartTiming(SetValue(pushed, 0), Timing(One, "none", << >>))

NormalizedPop(m) ==
    StartTiming(m, Timing(0, "normalizedPop", m.stack))

NormalizedFrame(m) ==
    IF /\ m.anim.active
       /\ m.value # m.anim.to
       /\ Toward(m.value, m.anim.to) # m.anim.to
    THEN [m EXCEPT !.value = Toward(m.value, m.anim.to)]
    ELSE m

NormalizedEnd(m) ==
    IF m.anim.active
    THEN RunCallback([m EXCEPT !.value = m.anim.to, !.anim = NoAnim],
                     m.anim.cb)
    ELSE m

\* a faulty variant of interpolate: the value is taken as the displacement
interpolateIdentity(v) == v

\* interpolate({inputRange: [0, 1], outputRange: [width, 0]})
interpolate(v) == width - v

\* render() of the gesture-free Navigator
NormalizedRender(s, v) ==
    [i \in 1..Len(s) |->
        LET index == i - 1
        IN  [key |-> s[i].key,
             translateX |-> IF index = Len(s) - 1 /\ index > 0
                            THEN interpolate(v) ELSE 0]]

PushBoth(sceneName) ==
    /\ handlePush(sceneName)
    /\ normalized' = NormalizedPush(normalized, sceneName)

PopBoth ==
    /\ handlePop
    /\ normalized' = NormalizedPop(normalized)

FrameBoth ==
    /\ AnimationFrame
    /\ normalized' = NormalizedFrame(normalized)

EndBoth ==
    /\ AnimationEnd
    /\ normalized' = NormalizedEnd(normalized)

NextBoth ==
    \/ \E sceneName \in PushNames : PushBoth(sceneName)
    \/ PopBoth
    \/ FrameBoth
    \/ EndBoth

SpecBoth == Init /\ [][NextBoth]_vars

\* the host's animation driver keeps running: a running animation gets its
\* frames and its end; nothing is assumed of the calls and touches
FairSpec ==
    /\ Spec
    /\ WF_vars(AnimationFrame /\ UNCHANGED normalized)
    /\ WF_vars(AnimationEnd /\ UNCHANGED normalized)



(***************************************************************************)
(* Properties.                                                             *)
(***************************************************************************)
Top(s) == s[Len(s)]
Front(s) == SubSeq(s, 1, Len(s) - 1)
Declared(name) == name \in DOMAIN sceneConfig
PopRunning == anim.active /\ anim.cb = "pop"

\* C1: in every reachable state of a constructed navigator, whatever pushes,
\* pops, gesture events and animation callbacks led to it, the stack holds at
\* least one element.
C1_StackNeverEmpty == phase # "threw" => Len(stack) >= 1

\* a pop's callback has run on a stack that holds the base screen alone
C1_Witness == last = [op |-> "end", arg |-> "pop"] /\ Len(stack) = 1

\* C2: a push of a declared name makes the stack exactly one longer and
\* leaves the descriptor of that name on top, whatever animation or gesture
\* is in flight at the call.
C2_PushGrows ==
    [][(last'.op = "push" /\ Declared(last'.arg))
          => /\ Len(stack') = Len(stack) + 1
             /\ Top(stack') = sceneConfig[last'.arg]]_vars

\* C3: pop() on a stack of length 1 changes neither the stack nor the offset,
\* at the call, in a frame of the animation it starts or in its callback.
C3_PopOnBaseNoOp ==
    [][(\/ last'.op = "pop" /\ Len(stack) = 1
        \/ /\ PopRunning /\ Len(anim.at) = 1
           /\ last'.op \in {"frame", "end"})
          => stack' = stack /\ value' = value]_vars

\* C4: when the animation of a pop() called on a stack longer than 1
\* completes, the stack is the stack of the call without its top element and
\* the offset is 0.
C4_CompletedPop ==
    [][(PopRunning /\ Len(anim.at) > 1 /\ last'.op = "end")
          => /\ Len(stack') = Len(anim.at) - 1
             /\ stack' = Front(anim.at)
             /\ value' = 0]_vars

\* C5: a push of an undeclared name leaves the stack and the offset as they
\* were, and no undefined entry enters the stack.
C5_PushUnknownRejected ==
    [][(last'.op = "push" /\ ~Declared(last'.arg))
          => /\ stack' = stack
             /\ value' = value
             /\ \A i \in 1..Len(stack') : stack'[i] # Undefined]_vars

\* C6: while the stack has length 1 the admission predicate is false at
\* every position, and no gesture is ever granted on such a stack.
C6_FirstScreenNeverAdmits ==
    /\ Len(stack) = 1 => \A pageX \in Positions :
                             ~onMoveShouldSetPanResponder(pageX)
    /\ last.op = "grant" => Len(stack) > 1

\* a move in the far left of the screen was refused on the first screen
C6_Witness ==
    last = [op |-> "deny", arg |-> "farLeft"] /\ Len(stack) = 1

\* C7: on a stack longer than 1 the admission predicate is true exactly at
\* the positions X with X < 0.25 * width, for every width.
C7_AdmitsLeftQuarter ==
    (phase = "mounted" /\ Len(stack) > 1)
        => \A pageX \in Positions :
               onMoveShouldSetPanResponder(pageX) <=> 4 * pageX < width

\* C8: a release at position X commits to a pop exactly when X >= width / 2,
\* for every width.
C8_ReleaseThreshold ==
    [][last'.op = "release"
          => ((anim'.active /\ anim'.cb = "pop") <=> 2 * moveX >= width)]_vars

\* C9: after a release at or beyond half the width on a stack of at least 2,
\* with nothing in between, the animation ends with the top element removed
\* and the offset at 0.
C9_ReleaseBeyondHalfPops ==
    [][(/\ last.op = "release" /\ 2 * moveX >= width /\ Len(stack) >= 2
        /\ last'.op = "end")
          => stack' = Front(stack) /\ value' = 0]_vars

\* C10: a release below half the width leaves the stack unchanged, and the
\* animation it starts ends with the stack unchanged and the offset at 0.
C10_ReleaseBelowHalfSnapsBack ==
    [][/\ (last'.op = "release" /\ 2 * moveX < width) => stack' = stack
       /\ (last.op = "release" /\ 2 * moveX < width /\ last'.op = "end")
             => stack' = stack /\ value' = 0]_vars

\* C11: the termination handler leaves the stack as it was and starts the
\* animation of the offset back to 0, at every drag position.
C11_TerminateSnapsBack ==
    [][last'.op = "terminate"
          => /\ stack' = stack
             /\ anim' = Timing(0, "none", << >>)]_vars

\* the descriptor the declared list gives a name: that of its last declaration
LastDeclared(name) ==
    LET i == CHOOSE i \in 1..Len(props.children) :
                 /\ props.children[i].name = name
                 /\ \A j \in (i + 1)..Len(props.children) :
                        props.children[j].name # name
    IN  [key |-> name, component |-> props.children[i].component]

RouteTable == {sceneConfig[n] : n \in DOMAIN sceneConfig}

\* C12: after construction the stack holds exactly one element, the route
\* table's descriptor of the designated initial name or, without one, of the
\* first declared route's name; it is a descriptor of the route table.
C12_SeededWithInitialRoute ==
    (last.op = "constructor" /\ phase # "threw")
        => /\ Len(stack) = 1
           /\ stack[1] \in RouteTable
           /\ stack[1].key = InitialSceneName(props)

\* C13: as long as every push of a declared name and every pop was issued
\* with no animation running and no drag moved the offset, the stack at rest
\* is the reference stack.
C13_SerialRunsFollowReference ==
    (phase = "mounted" /\ reference.serial /\ ~anim.active)
        => stack = reference.stack

\* a serial run in which a pop has completed on a stack of three
C13_Witness ==
    /\ reference.serial /\ ~anim.active
    /\ last = [op |-> "end", arg |-> "pop"]
    /\ Len(stack) = 2
    /\ stack = reference.stack

\* C14: a construction with no declared route fails in the constructor,
\* with or without an initial route name, and leaves no stack.
C14_EmptyRouteListIsFatal ==
    (last.op = "constructor" /\ props.children = << >>)
        => phase = "threw" /\ stack = << >>

\* C15: the route table maps every declared name to the descriptor of its
\* last declaration, and every descriptor in the stack is that of the last
\* declaration of its name.
C15_LastDeclarationWins ==
    /\ \A n \in DOMAIN sceneConfig : sceneConfig[n] = LastDeclared(n)
    /\ \A i \in 1..Len(stack) :
           stack[i] # Undefined => stack[i] = LastDeclared(stack[i].key)

\* a name declared twice was pushed and its last declaration is on top
C15_Witness ==
    /\ props.children = DuplicateChildren
    /\ last = [op |-> "push", arg |-> "Screen1"]
    /\ Len(stack) = 2
    /\ Top(stack) = [key |-> "Screen1", component |-> "Screen3"]

\* C16: an element leaves the stack only in the step in which an animation
\* completes, also when a push, a pop or a drag interrupts the pop.
C16_RemovalOnlyOnCompletion ==
    [][Len(stack') < Len(stack) => last'.op = "end"]_vars

\* C17: a push appends the descriptor before it touches the offset (the
\* callback of a pop it interrupts therefore removes the new element),
\* leaves the offset at the width with the animation to 0 running, and the
\* completion of that animation leaves the offset at 0.
C17_PushMutatesThenAnimates ==
    [][/\ (last'.op = "push" /\ Declared(last'.arg))
             => /\ stack' = IF PopRunning THEN stack
                            ELSE Append(stack, sceneConfig[last'.arg])
                /\ value' = width
                /\ anim' = Timing(0, "none", << >>)
       /\ (last.op = "push" /\ last'.op = "end")
             => value' = 0 /\ stack' = stack]_vars

\* a push has just run: the new element is on the stack, the offset is at
\* the width and the animation to 0 is running
C17_Witness ==
    /\ last.op = "push" /\ Declared(last.arg)
    /\ value = width /\ anim.active
    /\ Len(stack) = 2

\* C18: a push of a declared name issued while a pop animation is running
\* leaves the pushed descriptor on top of the stack.
C18_PushDuringPopWins ==
    [][(PopRunning /\ last'.op = "push" /\ Declared(last'.arg))
          => /\ Top(stack') = sceneConfig[last'.arg]
             /\ Len(stack') > Len(stack)]_vars

\* C19: a pop issued on a stack of length 1 removes nothing, whatever is
\* pushed while its animation is running.
C19_PopOnBaseRemovesNothing ==
    [][(PopRunning /\ Len(anim.at) = 1)
          => /\ Len(stack') >= Len(stack)
             /\ (last'.op = "push" /\ Declared(last'.arg))
                   => stack' = Append(stack, sceneConfig[last'.arg])]_vars

\* C20: a gesture is granted only if the touch started in the left quarter
\* of the screen.
C20_AdmissionByStartPosition ==
    [][(touch = "down" /\ touch' = "responder") => 4 * startX < width]_vars

\* C22: every move of an admitted drag sets the offset to the position of the
\* touch and leaves the stack as it was.
C22_MoveTracksTouch ==
    [][last'.op = "move"
          => /\ value' = moveX'
             /\ stack' = stack]_vars

\* C23: render displaces the last scene alone, by the offset, and only on a
\* stack longer than 1; every other scene has displacement 0.
C23_OnlyTopDisplaced ==
    phase = "mounted"
        => LET scenes == render(stack, value)
           IN  /\ Len(scenes) = Len(stack)
               /\ \A i \in 1..Len(stack) :
                      scenes[i].translateX =
                          IF i = Len(stack) /\ Len(stack) > 1 THEN value ELSE 0

\* a pop on the base screen is animating: the offset is away from rest on a
\* stack of one
C23_Witness ==
    /\ phase = "mounted" /\ Len(stack) = 1
    /\ value > 0 /\ PopRunning

\* C24: a step leaves the stack as it was, appends one element, or removes
\* the last element of a stack longer than 1.
C24_AppendOrRemoveLast ==
    [][\/ stack' = stack
       \/ Len(stack') = Len(stack) + 1 /\ Front(stack') = stack
       \/ Len(stack) > 1 /\ stack' = Front(stack)]_vars

\* a move of a drag has removed the top: drags are granted on stacks longer
\* than 1 only
C24_Witness ==
    /\ last.op = "move" /\ touch = "responder"
    /\ Len(stack) = 1

\* C25: no step changes the route table.
C25_RouteTableReadOnly ==
    [][sceneConfig' = sceneConfig]_vars

\* pushes and a completed pop lie behind, the table is that of construction
C25_Witness ==
    /\ last = [op |-> "end", arg |-> "pop"]
    /\ Len(stack) = 1
    /\ moveX > 0
    /\ sceneConfig = buildSceneConfig(props.children)
    /\ DOMAIN sceneConfig # {}

\* C26: the offset lies between 0 and the width.
C26_OffsetInRange ==
    value \in 0..width

\* a drag has moved the offset to the right edge
C26_Witness ==
    last.op = "move" /\ touch = "responder" /\ value = width

\* C27: with no animation running and no drag in progress the offset is 0.
C27_RestAtZero ==
    (phase = "mounted" /\ ~anim.active /\ touch # "responder") => value = 0

\* the animation back to rest has ended after a drag
C27_Witness ==
    /\ last = [op |-> "end", arg |-> "none"]
    /\ moveX > 0 /\ touch = "none"
    /\ Len(stack) = 2 /\ value = 0

\* the descriptor the constructor put on the stack
Seed == Lookup(sceneConfig, InitialSceneName(props))

\* C29: the first element of the stack is the descriptor the constructor
\* seeded it with.
C29_BaseNeverChanges ==
    phase # "threw" => Len(stack) >= 1 /\ stack[1] = Seed

\* a pop started by a release has removed the second screen
C29_Witness ==
    /\ last = [op |-> "end", arg |-> "pop"]
    /\ 2 * moveX >= width
    /\ stack = << Seed >>

\* C30: while the initial name and every pushed name were declared, every
\* element of the stack is the route table's descriptor of its own key.
C30_StackHoldsRegisteredDescriptors ==
    phase = "mounted"
        => \A i \in 1..Len(stack) :
               /\ stack[i] # Undefined
               /\ stack[i].key \in DOMAIN sceneConfig
               /\ sceneConfig[stack[i].key] = stack[i]

\* three declared screens are on the stack
C30_Witness ==
    /\ phase = "mounted" /\ Len(stack) = 3
    /\ last.op = "push"
    /\ \A i \in 1..3 : stack[i] \in RouteTable

\* C28: the elements removed so far never outnumber the pop requests issued
\* so far, a step removes at most one element, and the callback of a pop does
\* not run a second time: once it has run, the animation holding it is gone.
C28_OneRemovalPerRequest ==
    /\ owed >= 0
    /\ last.op = "end" => ~anim.active

\* the callback of a pop has run, and every pop counted so far has removed
\* one element
C28_Witness ==
    /\ last = [op |-> "end", arg |-> "pop"]
    /\ Len(stack) = 1 /\ owed = 0
    /\ moveX = 0 /\ touch = "none"

\* C21: with the animation driver running, every animation in flight comes
\* to its end or is stopped, every pop called on a stack longer than 1 is
\* followed by a stack shorter than that of the call, and again and again no
\* animation is in flight.
C21_EveryPushAndPopCompletes ==
    /\ (phase = "mounted" /\ anim.active)
           ~> (phase # "mounted" \/ ~anim.active)
    /\ \A n \in 2..MaxStack :
           (phase = "mounted" /\ PopRunning /\ Len(anim.at) = n)
               ~> (phase # "mounted" \/ Len(stack) < n)
    /\ []<>(phase # "mounted" \/ ~anim.active)

\* C31: fed with the same pushes and pops and with animations running at
\* the same pace, the gesture-free Navigator with the normalized value and
\* the Navigator keep the same stack, and they render the same scenes with
\* the same displacements (that of the top of a stack longer than 1
\* included).
C31_NormalizedVariantEquivalent ==
    /\ normalized.stack = stack
    /\ phase = "mounted"
           => /\ NormalizedRender(normalized.stack, normalized.value)
                    = render(stack, value)
              /\ normalized.anim.active = anim.active

\* half way through the animation of a pop on a stack of two, both show the
\* top displaced by the same amount
C31_Witness ==
    /\ last.op = "frame" /\ PopRunning
    /\ Len(stack) = 2 /\ normalized.stack = stack
    /\ value > 0 /\ value < width
    /\ normalized.value = One - value
    /\ normalized.anim.cb = "normalizedPop"

\* C32: the recognizer grants every termination request, whatever the
\* stack, the offset and the drag position.
C32_TerminationAlwaysGranted ==
    onPanResponderTerminationRequest

\* a drag that had moved the offset on a stack of two was terminated
C32_Witness ==
    /\ last.op = "terminate"
    /\ Len(stack) = 2
    /\ moveX > 0 /\ value > 0

=============================================================================
